---- MODULE Spec2Model ----
(***************************************************************************)
(* Generational resource storage of synarion-engine:                       *)
(*   syn_collections::SlotMap  (slot_map.rs)                               *)
(*   syn_core::Pool            (pool.rs)                                   *)
(*   syn_core::Handle          (handle.rs)                                 *)
(* Rust vectors are 0-based; a Vec is a TLA+ sequence and element i of the *)
(* Vec is element i + 1 of the sequence.                                   *)
(***************************************************************************)
EXTENDS Integers, Sequences, FiniteSets, TLC

(***************************************************************************)
(* Bounds of the model.                                                    *)
(***************************************************************************)
\* Largest number of slots a store grows to.
MaxEntries == 2
\* Number of values of the generation counter of the model.  The source
\* uses u32 (2^32 values); the model keeps the wrapping arithmetic and narrows
\* the range so that a full wrap of one slot's generation is reachable.
GenMod == 4
\* Largest number of successful removes of one run (caps the history counters).
MaxRemoves == 4

\* Number of values of a handle's index in the model (u32 in the source,
\* 2^32 values).  The stores of the model stay smaller than IndexMod slots,
\* as the source assumes of its own ("SlotMap will never have more than
\* u32::MAX entries", slot_map.rs:84), so the cast of the slot count to the
\* index type does not truncate here.
IndexMod == 8

\* The values stored (T); the names are those of the documentation example.
Values == {"first", "second", "third"}

(***************************************************************************)
(* Option<T>                                                               *)
(***************************************************************************)
None == [some |-> FALSE]
Some(x) == [some |-> TRUE, val |-> x]
is_some(o) == o.some

(***************************************************************************)
(* Handle<T>  (handle.rs)                                                  *)
(***************************************************************************)
Handle_new(index, generation) == [index |-> index, generation |-> generation]

\* Every handle a caller can present: issued by insert or synthesized with
\* Handle::new, including indices past the end of the store.
Handles == { Handle_new(i, g) : i \in 0..MaxEntries, g \in 0..(GenMod - 1) }

\* Handles compared, copied and hashed: those of the unit tests and their
\* neighbours.
HashHandles == { Handle_new(i, g) : i \in 1..2, g \in 1..2 }

\* impl Clone for Handle: *self
Handle_clone(self) == [index |-> self.index, generation |-> self.generation]

\* Mutant: handles are compared by index alone.
Handle_eq_index_only(self, other) == self.index = other.index
\* impl PartialEq for Handle
Handle_eq(self, other) ==
    self.index = other.index /\ self.generation = other.generation

\* impl Hash for Handle: `state` is what the hasher has been fed so far.
Handle_hash(self, state) == Append(Append(state, self.index), self.generation)

\* HashSet<Handle<T>>, as the sequence of the handles it stores.
HashSet_new == <<>>

\* HashSet::contains(&handle): an element with the same hash that is equal.
HashSet_contains(hs, handle) ==
    \E k \in 1..Len(hs) :
        /\ Handle_hash(hs[k], <<>>) = Handle_hash(handle, <<>>)
        /\ Handle_eq(hs[k], handle)

\* HashSet::insert(handle): the set after the call and whether the handle
\* was newly inserted.
HashSet_insert(hs, handle) ==
    IF HashSet_contains(hs, handle)
    THEN [set |-> hs, ret |-> FALSE]
    ELSE [set |-> Append(hs, Handle_clone(handle)), ret |-> TRUE]

\* Mutant: the generation is not advanced.
wrapping_add_none(g) == g
\* Mutant: the generation stops at its maximum instead of wrapping.
wrapping_add_saturating(g) == IF g = GenMod - 1 THEN g ELSE g + 1
\* u32::wrapping_add(1) on a generation of the model.
wrapping_add(g) == (g + 1) % GenMod

\* usize as u32
as_u32(n) == n % IndexMod

(***************************************************************************)
(* SlotMap<T>  (slot_map.rs)                                               *)
(***************************************************************************)
\* enum Entry<T>
Occupied(value, generation) ==
    [tag |-> "Occupied", value |-> value, generation |-> generation]
Vacant(next_free, generation) ==
    [tag |-> "Vacant", next_free |-> next_free, generation |-> generation]

\* struct SlotMap<T> { entries, free_head, len }
SlotMap_new == [entries |-> <<>>, free_head |-> None, len |-> 0]

\* Vec::get(i) on a 0-based index.
vec_get(vec, i) == IF i < Len(vec) THEN Some(vec[i + 1]) ELSE None

\* SlotMap::insert: the map after the call, the handle returned, and whether
\* the call panicked (index out of bounds, or the unreachable! branch).
\* Mutant: the handle of a reused slot is built with generation 0.
SlotMap_insert_reuse_fresh_handle(m, value, free_index) ==
    LET entry == m.entries[free_index + 1]
    IN  [map |-> [entries   |-> [m.entries EXCEPT ![free_index + 1] =
                                     Occupied(value, entry.generation)],
                  free_head |-> entry.next_free,
                  len       |-> m.len + 1],
         ret |-> Handle_new(free_index, 0),
         panic |-> FALSE]
\* Mutant: a reused slot restarts at generation 0.
SlotMap_insert_reuse_reset(m, value, free_index) ==
    LET entry == m.entries[free_index + 1]
    IN  [map |-> [entries   |-> [m.entries EXCEPT ![free_index + 1] = Occupied(value, 0)],
                  free_head |-> entry.next_free,
                  len       |-> m.len + 1],
         ret |-> Handle_new(free_index, 0),
         panic |-> FALSE]
\* Mutant: free_head is not advanced when its slot is reused.
SlotMap_insert_reuse_keep_head(m, value, free_index) ==
    LET entry == m.entries[free_index + 1]
    IN  [map |-> [entries   |-> [m.entries EXCEPT ![free_index + 1] =
                                     Occupied(value, entry.generation)],
                  free_head |-> m.free_head,
                  len       |-> m.len + 1],
         ret |-> Handle_new(free_index, entry.generation),
         panic |-> FALSE]
SlotMap_insert_reuse(m, value, free_index) ==
    IF free_index >= Len(m.entries)
    THEN [map |-> m, ret |-> Handle_new(free_index, 0), panic |-> TRUE]
    ELSE LET entry == m.entries[free_index + 1]
         IN  IF entry.tag = "Vacant"
             THEN LET generation == entry.generation
                  IN  [map |-> [entries   |-> [m.entries EXCEPT ![free_index + 1] =
                                                   Occupied(value, generation)],
                                free_head |-> entry.next_free,
                                len       |-> m.len + 1],
                       ret |-> Handle_new(free_index, generation),
                       panic |-> FALSE]
             ELSE [map |-> m, ret |-> Handle_new(free_index, 0), panic |-> TRUE]

\* Mutant: a new slot starts at generation 1.
SlotMap_insert_grow_gen1(m, value) ==
    LET index == as_u32(Len(m.entries))
    IN  [map |-> [entries   |-> Append(m.entries, Occupied(value, 1)),
                  free_head |-> m.free_head,
                  len       |-> m.len + 1],
         ret |-> Handle_new(index, 1),
         panic |-> FALSE]
\* Mutant: growth appends a spare vacant slot after the new one.
SlotMap_insert_grow_two(m, value) ==
    LET index == as_u32(Len(m.entries))
    IN  [map |-> [entries   |-> Append(Append(m.entries, Occupied(value, 0)),
                                       Vacant(None, 0)),
                  free_head |-> m.free_head,
                  len       |-> m.len + 1],
         ret |-> Handle_new(index, 0),
         panic |-> FALSE]
\* Mutant: the new slot is put in front of the others.
SlotMap_insert_grow_front(m, value) ==
    LET index == as_u32(Len(m.entries))
    IN  [map |-> [entries   |-> <<Occupied(value, 0)>> \o m.entries,
                  free_head |-> m.free_head,
                  len       |-> m.len + 1],
         ret |-> Handle_new(index, 0),
         panic |-> FALSE]
SlotMap_insert_grow(m, value) ==
    LET index == as_u32(Len(m.entries))
        generation == 0
    IN  [map |-> [entries   |-> Append(m.entries, Occupied(value, generation)),
                  free_head |-> m.free_head,
                  len       |-> m.len + 1],
         ret |-> Handle_new(index, generation),
         panic |-> FALSE]

\* Mutant: a new slot is appended although a vacant one is free.
SlotMap_insert_prefers_growth(m, value) == SlotMap_insert_grow(m, value)
SlotMap_insert(m, value) ==
    IF is_some(m.free_head)
    THEN SlotMap_insert_reuse(m, value, m.free_head.val)
    ELSE SlotMap_insert_grow(m, value)

\* SlotMap::remove: the map after the call, the Option<T> returned, and
\* whether the call panicked (len -= 1 below zero with overflow checks on).
\* Mutant: the generation of the handle is not compared.
SlotMap_remove_any_generation(m, handle) ==
    LET index == handle.index
    IN  IF index >= Len(m.entries)
        THEN [map |-> m, ret |-> None, panic |-> FALSE]
        ELSE LET entry == m.entries[index + 1]
             IN  IF entry.tag = "Occupied"
                 THEN [map |-> [entries   |-> [m.entries EXCEPT ![index + 1] =
                                     Vacant(m.free_head, wrapping_add(entry.generation))],
                                free_head |-> Some(handle.index),
                                len       |-> m.len - 1],
                       ret |-> Some(entry.value),
                       panic |-> FALSE]
                 ELSE [map |-> m, ret |-> None, panic |-> FALSE]
\* Mutant: len is not decremented.
SlotMap_remove_keep_len(m, handle) ==
    LET index == handle.index
    IN  IF index >= Len(m.entries)
        THEN [map |-> m, ret |-> None, panic |-> FALSE]
        ELSE LET entry == m.entries[index + 1]
             IN  IF entry.tag = "Occupied" /\ entry.generation = handle.generation
                 THEN [map |-> [entries   |-> [m.entries EXCEPT ![index + 1] =
                                     Vacant(m.free_head, wrapping_add(entry.generation))],
                                free_head |-> Some(handle.index),
                                len       |-> m.len],
                       ret |-> Some(entry.value),
                       panic |-> FALSE]
                 ELSE [map |-> m, ret |-> None, panic |-> FALSE]
\* Mutant: the Vacant entry does not link to the former head of the free list.
SlotMap_remove_unlinked(m, handle) ==
    LET index == handle.index
    IN  IF index >= Len(m.entries)
        THEN [map |-> m, ret |-> None, panic |-> FALSE]
        ELSE LET entry == m.entries[index + 1]
             IN  IF entry.tag = "Occupied" /\ entry.generation = handle.generation
                 THEN [map |-> [entries   |-> [m.entries EXCEPT ![index + 1] =
                                     Vacant(None, wrapping_add(entry.generation))],
                                free_head |-> Some(handle.index),
                                len       |-> m.len - 1],
                       ret |-> Some(entry.value),
                       panic |-> FALSE]
                 ELSE [map |-> m, ret |-> None, panic |-> FALSE]
SlotMap_remove(m, handle) ==
    LET index == handle.index
    IN  IF index >= Len(m.entries)
        THEN [map |-> m, ret |-> None, panic |-> FALSE]
        ELSE LET entry == m.entries[index + 1]
             IN  IF entry.tag = "Occupied" /\ entry.generation = handle.generation
                 THEN LET new_generation == wrapping_add(entry.generation)
                          old_entry == entry
                      IN  IF m.len = 0
                          THEN [map |-> m, ret |-> None, panic |-> TRUE]
                          ELSE [map |-> [entries   |-> [m.entries EXCEPT ![index + 1] =
                                              Vacant(m.free_head, new_generation)],
                                         free_head |-> Some(handle.index),
                                         len       |-> m.len - 1],
                                ret |-> Some(old_entry.value),
                                panic |-> FALSE]
                 ELSE [map |-> m, ret |-> None, panic |-> FALSE]

\* SlotMap::get
\* Mutant: the generation of the handle is not compared.
SlotMap_get_any_generation(m, handle) ==
    LET e == vec_get(m.entries, handle.index)
    IN  IF is_some(e) /\ e.val.tag = "Occupied" THEN Some(e.val.value) ELSE None
SlotMap_get(m, handle) ==
    LET index == handle.index
        e == vec_get(m.entries, index)
    IN  IF is_some(e)
        THEN IF e.val.tag = "Occupied" /\ e.val.generation = handle.generation
             THEN Some(e.val.value)
             ELSE None
        ELSE None

\* SlotMap::get_mut: the Option<&mut T> is modelled by the value it refers
\* to; write_through is the caller's assignment through the reference.
SlotMap_get_mut(m, handle) ==
    LET index == handle.index
        e == vec_get(m.entries, index)
    IN  IF is_some(e)
        THEN IF e.val.tag = "Occupied" /\ e.val.generation = handle.generation
             THEN Some(e.val.value)
             ELSE None
        ELSE None
\* Mutant: the write also advances the generation of the slot.
write_through_bump(m, handle, value) ==
    [m EXCEPT !.entries[handle.index + 1].value = value,
              !.entries[handle.index + 1].generation = wrapping_add(@)]
write_through(m, handle, value) ==
    [m EXCEPT !.entries[handle.index + 1].value = value]

\* SlotMap::len, SlotMap::is_empty
SlotMap_len(m) == m.len
SlotMap_is_empty(m) == m.len = 0

\* SlotMap::contains
SlotMap_contains(m, handle) ==
    LET index == handle.index
        e == vec_get(m.entries, index)
    IN  is_some(e) /\ e.val.tag = "Occupied" /\ e.val.generation = handle.generation

(***************************************************************************)
(* The steps of SlotMap::remove, one memory access each, for calls that    *)
(* run without mutual exclusion.                                           *)
(***************************************************************************)
\* The bounds check and the match guard: the handle is valid.
remove_check(m, handle) ==
    /\ handle.index < Len(m.entries)
    /\ m.entries[handle.index + 1].tag = "Occupied"
    /\ m.entries[handle.index + 1].generation = handle.generation

\* mem::replace(entry, Vacant { next_free: self.free_head, generation: new })
remove_replace(m, handle) ==
    LET new_generation == wrapping_add(m.entries[handle.index + 1].generation)
    IN  [m EXCEPT !.entries[handle.index + 1] =
                      Vacant(m.free_head, new_generation)]

\* Mutant: free_head is left as it is.
remove_set_head_skip(m, handle) == m
\* self.free_head = Some(handle.index())
remove_set_head(m, handle) == [m EXCEPT !.free_head = Some(handle.index)]

\* self.len -= 1: the load, and the store of the loaded value less one.
remove_load_len(m) == m.len
remove_store_len(m, loaded) == [m EXCEPT !.len = loaded - 1]

(***************************************************************************)
(* Pool<T>  (pool.rs)                                                      *)
(***************************************************************************)
\* enum Slot<T>: a vacant slot stores no generation.
Slot_Occupied(value, generation) ==
    [tag |-> "Occupied", value |-> value, generation |-> generation]
Slot_Vacant(next_free) == [tag |-> "Vacant", next_free |-> next_free]

\* struct Pool<T> { slots, first_free, len }
Pool_new == [slots |-> <<>>, first_free |-> None, len |-> 0]

\* The tail of Pool::insert: push a new slot.
Pool_insert_push(p, value) ==
    LET index == as_u32(Len(p.slots))
    IN  [pool |-> [slots      |-> Append(p.slots, Slot_Occupied(value, 0)),
                   first_free |-> p.first_free,
                   len        |-> p.len + 1],
         ret |-> Handle_new(index, 0),
         panic |-> FALSE]

\* Pool::insert: the pool after the call, the handle returned, and whether
\* the call panicked (index out of bounds).
Pool_insert(p, value) ==
    IF is_some(p.first_free)
    THEN LET index == p.first_free.val
         IN  IF index >= Len(p.slots)
             THEN [pool |-> p, ret |-> Handle_new(index, 0), panic |-> TRUE]
             ELSE LET slot == p.slots[index + 1]
                  IN  IF slot.tag = "Vacant"
                      THEN [pool |-> [slots      |-> [p.slots EXCEPT ![index + 1] =
                                                          Slot_Occupied(value, 0)],
                                      first_free |-> slot.next_free,
                                      len        |-> p.len + 1],
                            ret |-> Handle_new(index, 0),
                            panic |-> FALSE]
                      ELSE Pool_insert_push(p, value)
    ELSE Pool_insert_push(p, value)

\* Pool::remove: the pool after the call, the Option<T> returned, and whether
\* the call panicked (len -= 1 below zero, checked arithmetic).
Pool_remove(p, handle) ==
    LET index == handle.index
    IN  IF index >= Len(p.slots)
        THEN [pool |-> p, ret |-> None, panic |-> FALSE]
        ELSE LET slot == p.slots[index + 1]
             IN  IF slot.tag = "Occupied"
                 THEN IF slot.generation # handle.generation
                      THEN [pool |-> p, ret |-> None, panic |-> FALSE]
                      ELSE IF p.len = 0
                           THEN [pool |-> p, ret |-> None, panic |-> TRUE]
                           ELSE [pool |-> [slots      |-> [p.slots EXCEPT ![index + 1] =
                                                               Slot_Vacant(p.first_free)],
                                           first_free |-> Some(handle.index),
                                           len        |-> p.len - 1],
                                 ret |-> Some(slot.value),
                                 panic |-> FALSE]
                 ELSE [pool |-> p, ret |-> None, panic |-> FALSE]

\* Pool::get
Pool_get(p, handle) ==
    LET index == handle.index
    IN  IF index >= Len(p.slots)
        THEN None
        ELSE LET slot == p.slots[index + 1]
             IN  IF slot.tag = "Occupied" /\ slot.generation = handle.generation
                 THEN Some(slot.value)
                 ELSE None

\* Pool::get_mut: the Option<&mut T> is modelled by the value it refers to.
Pool_get_mut(p, handle) ==
    LET index == handle.index
    IN  IF index >= Len(p.slots)
        THEN None
        ELSE LET slot == p.slots[index + 1]
             IN  IF slot.tag = "Occupied" /\ slot.generation = handle.generation
                 THEN Some(slot.value)
                 ELSE None
Pool_write_through(p, handle, value) ==
    [p EXCEPT !.slots[handle.index + 1].value = value]

\* Pool::len, Pool::is_empty
Pool_len(p) == p.len
Pool_is_empty(p) == p.len = 0

(***************************************************************************)
(* SparseSet<T>  (sparse_set.rs)                                           *)
(***************************************************************************)
\* Cap on the number of indices present in the set.
MaxSetLen == 3

\* Indices offered to the set.
SparseIndices == {0, 2, 5, 9}

\* Values stored in the set.
Payloads == {"a", "b"}

\* struct SparseSet<T> { sparse, dense }; a dense element is (index, value).
SparseSet_new == [sparse |-> <<>>, dense |-> <<>>]

\* Vec::resize(new_len, None) as insert calls it (new_len > len).
resize(v, new_len) ==
    [k \in 1..new_len |-> IF k <= Len(v) THEN v[k] ELSE None]

\* Mutant: the elements after the removed one shift down, keeping their order.
shift_remove(v, i) ==
    [k \in 1..(Len(v) - 1) |-> IF k <= i THEN v[k] ELSE v[k + 1]]
\* Vec::swap_remove(i) on a 0-based index in range: the last element takes
\* the place of the removed one.
swap_remove(v, i) ==
    LET n == Len(v)
    IN  [k \in 1..(n - 1) |-> IF k = i + 1 THEN v[n] ELSE v[k]]

\* Mutant: the pair is appended whether or not the index is present.
SparseSet_insert_always_push(s, index, value) ==
    LET idx == index
        sparse1 == IF idx >= Len(s.sparse) THEN resize(s.sparse, idx + 1)
                   ELSE s.sparse
    IN  [set |-> [sparse |-> [sparse1 EXCEPT ![idx + 1] = Some(Len(s.dense))],
                  dense |-> Append(s.dense, <<index, value>>)],
         panic |-> FALSE]
\* set.insert(index, value): the set after the call and whether it panicked
\* (index out of bounds).
SparseSet_insert(s, index, value) ==
    LET idx == index
        sparse1 == IF idx >= Len(s.sparse) THEN resize(s.sparse, idx + 1)
                   ELSE s.sparse
    IN  IF is_some(sparse1[idx + 1])
        THEN LET dense_idx == sparse1[idx + 1].val
             IN  IF dense_idx >= Len(s.dense)
                 THEN [set |-> [sparse |-> sparse1, dense |-> s.dense],
                       panic |-> TRUE]
                 ELSE [set |-> [sparse |-> sparse1,
                                dense |-> [s.dense EXCEPT
                                             ![dense_idx + 1][2] = value]],
                       panic |-> FALSE]
        ELSE [set |-> [sparse |-> [sparse1 EXCEPT
                                     ![idx + 1] = Some(Len(s.dense))],
                       dense |-> Append(s.dense, <<index, value>>)],
              panic |-> FALSE]

\* Mutant: the entry moved into the hole keeps its old sparse record.
SparseSet_remove_no_fixup(s, index) ==
    LET idx == index
    IN  IF idx >= Len(s.sparse) \/ ~is_some(s.sparse[idx + 1])
        THEN [set |-> s, ret |-> None, panic |-> FALSE]
        ELSE LET dense_idx == s.sparse[idx + 1].val
             IN  [set |-> [sparse |-> [s.sparse EXCEPT ![idx + 1] = None],
                           dense |-> swap_remove(s.dense, dense_idx)],
                  ret |-> Some(s.dense[dense_idx + 1][2]),
                  panic |-> FALSE]
\* Mutant: the sparse record of the removed index is left in place.
SparseSet_remove_keep_sparse(s, index) ==
    LET idx == index
    IN  IF idx >= Len(s.sparse) \/ ~is_some(s.sparse[idx + 1])
        THEN [set |-> s, ret |-> None, panic |-> FALSE]
        ELSE LET dense_idx == s.sparse[idx + 1].val
                 dense1 == swap_remove(s.dense, dense_idx)
             IN  [set |-> [sparse |-> IF dense_idx < Len(dense1)
                                      THEN [s.sparse EXCEPT
                                              ![dense1[dense_idx + 1][1] + 1] =
                                                  Some(dense_idx)]
                                      ELSE s.sparse,
                           dense |-> dense1],
                  ret |-> Some(s.dense[dense_idx + 1][2]),
                  panic |-> FALSE]
\* Mutant: the last dense element is dropped, whichever index it belongs to.
SparseSet_remove_pop(s, index) ==
    LET idx == index
    IN  IF idx >= Len(s.sparse) \/ ~is_some(s.sparse[idx + 1])
        THEN [set |-> s, ret |-> None, panic |-> FALSE]
        ELSE LET dense_idx == s.sparse[idx + 1].val
             IN  [set |-> [sparse |-> [s.sparse EXCEPT ![idx + 1] = None],
                           dense |-> SubSeq(s.dense, 1, Len(s.dense) - 1)],
                  ret |-> Some(s.dense[dense_idx + 1][2]),
                  panic |-> FALSE]
\* Mutant: an index beyond the sparse array makes the array grow to hold it.
SparseSet_remove_resizing(s, index) ==
    LET idx == index
    IN  IF idx >= Len(s.sparse)
        THEN [set |-> [s EXCEPT !.sparse = resize(s.sparse, idx + 1)],
              ret |-> None, panic |-> FALSE]
        ELSE IF ~is_some(s.sparse[idx + 1])
        THEN [set |-> s, ret |-> None, panic |-> FALSE]
        ELSE LET dense_idx == s.sparse[idx + 1].val
                 taken == [s.sparse EXCEPT ![idx + 1] = None]
                 dense1 == swap_remove(s.dense, dense_idx)
             IN  [set |-> [sparse |-> IF dense_idx < Len(dense1)
                                      THEN [taken EXCEPT
                                              ![dense1[dense_idx + 1][1] + 1] =
                                                  Some(dense_idx)]
                                      ELSE taken,
                           dense |-> dense1],
                  ret |-> Some(s.dense[dense_idx + 1][2]),
                  panic |-> FALSE]
\* set.remove(index): the set after the call, the value returned, and whether
\* the call panicked (index out of bounds).
SparseSet_remove(s, index) ==
    LET idx == index
    IN  IF idx >= Len(s.sparse)
        THEN [set |-> s, ret |-> None, panic |-> FALSE]
        ELSE IF is_some(s.sparse[idx + 1])
        THEN LET dense_idx == s.sparse[idx + 1].val
                 taken == [s.sparse EXCEPT ![idx + 1] = None]
             IN  IF dense_idx >= Len(s.dense)
                 THEN [set |-> [sparse |-> taken, dense |-> s.dense],
                       ret |-> None, panic |-> TRUE]
                 ELSE LET removed == s.dense[dense_idx + 1]
                          dense1 == swap_remove(s.dense, dense_idx)
                      IN  IF dense_idx < Len(dense1)
                          THEN LET moved == dense1[dense_idx + 1][1]
                               IN  IF moved >= Len(taken)
                                   THEN [set |-> [sparse |-> taken,
                                                  dense |-> dense1],
                                         ret |-> None, panic |-> TRUE]
                                   ELSE [set |-> [sparse |-> [taken EXCEPT
                                                     ![moved + 1] = Some(dense_idx)],
                                                  dense |-> dense1],
                                         ret |-> Some(removed[2]),
                                         panic |-> FALSE]
                          ELSE [set |-> [sparse |-> taken, dense |-> dense1],
                                ret |-> Some(removed[2]), panic |-> FALSE]
        ELSE [set |-> s, ret |-> None, panic |-> FALSE]

\* set.get(index)
SparseSet_get(s, index) ==
    LET idx == index
        slot == vec_get(s.sparse, idx)
    IN  IF ~is_some(slot) THEN [ret |-> None, panic |-> FALSE]
        ELSE IF ~is_some(slot.val) THEN [ret |-> None, panic |-> FALSE]
        ELSE IF slot.val.val >= Len(s.dense) THEN [ret |-> None, panic |-> TRUE]
        ELSE [ret |-> Some(s.dense[slot.val.val + 1][2]), panic |-> FALSE]

\* set.get_mut(index): the value the returned reference points at.
SparseSet_get_mut(s, index) ==
    LET idx == index
        slot == vec_get(s.sparse, idx)
    IN  IF ~is_some(slot) THEN [ret |-> None, panic |-> FALSE]
        ELSE IF ~is_some(slot.val) THEN [ret |-> None, panic |-> FALSE]
        ELSE LET dense_idx == slot.val.val
             IN  IF dense_idx >= Len(s.dense)
                 THEN [ret |-> None, panic |-> TRUE]
                 ELSE [ret |-> Some(s.dense[dense_idx + 1][2]), panic |-> FALSE]

\* The set after the caller writes `value` through the reference returned by
\* set.get_mut(index) (which was Some).
SparseSet_write_through(s, index, value) ==
    LET dense_idx == s.sparse[index + 1].val
    IN  [s EXCEPT !.dense[dense_idx + 1][2] = value]

\* Mutant: only the bounds check is made.
SparseSet_contains_in_range(s, index) == index < Len(s.sparse)
\* set.contains(index)
SparseSet_contains(s, index) ==
    LET idx == index
    IN  idx < Len(s.sparse) /\ is_some(s.sparse[idx + 1])

\* set.len(), set.is_empty()
SparseSet_len(s) == Len(s.dense)
SparseSet_is_empty(s) == s.dense = <<>>

\* Mutant: the first dense element is not yielded.
SparseSet_iter_skip_first(s) ==
    [k \in 1..(Len(s.dense) - 1) |-> <<s.dense[k + 1][1], s.dense[k + 1][2]>>]
\* set.iter(), collected: the pairs (index, value) in the order yielded.
SparseSet_iter(s) ==
    [k \in 1..Len(s.dense) |-> <<s.dense[k][1], s.dense[k][2]>>]

(***************************************************************************)
(* Arena<T>  (arena.rs)                                                    *)
(***************************************************************************)
\* Largest chunk size given to Arena::with_chunk_size.
MaxChunkSize == 2

\* Cap on the alloc calls between two clears.
MaxAllocs == 5

\* The chunk size of Arena::new().
DefaultChunkSize == 1024

\* Chunk sizes given to Arena::with_chunk_size.
ChunkSizes == 0..MaxChunkSize

\* Vec::with_capacity(capacity): an empty vector; `grown` counts the times a
\* push found the vector full and moved it to a larger buffer.
Vec_with_capacity(capacity) ==
    [items |-> <<>>, capacity |-> capacity, grown |-> 0]

\* Vec::push(value): the vector is grown first when it is full.
Vec_push(v, value) ==
    IF Len(v.items) >= v.capacity
    THEN [items    |-> Append(v.items, value),
          capacity |-> IF v.capacity = 0 THEN 4 ELSE 2 * v.capacity,
          grown    |-> v.grown + 1]
    ELSE [v EXCEPT !.items = Append(v.items, value)]

\* Arena::with_chunk_size(chunk_size)
Arena_with_chunk_size(size) == [chunks |-> <<>>, chunk_size |-> size]

\* Arena::new()
Arena_new == Arena_with_chunk_size(DefaultChunkSize)

\* Arena::needs_new_chunk
\* Mutant: a new chunk is asked for only once the last one is over-full.
Arena_needs_new_chunk_late(a) ==
    \/ a.chunks = <<>>
    \/ Len(a.chunks[Len(a.chunks)].items) > a.chunk_size
Arena_needs_new_chunk(a) ==
    \/ a.chunks = <<>>
    \/ Len(a.chunks[Len(a.chunks)].items) >= a.chunk_size

\* Mutant: the value goes to the front of the last chunk.
Arena_alloc_push_front(a, value) ==
    LET chunks1 == IF Arena_needs_new_chunk(a)
                   THEN Append(a.chunks, Vec_with_capacity(a.chunk_size))
                   ELSE a.chunks
        n == Len(chunks1)
    IN  [arena |-> [a EXCEPT !.chunks =
                       [chunks1 EXCEPT ![n].items = <<value>> \o @]],
         chunk |-> n - 1,
         offset |-> 0,
         ret |-> value]
\* Arena::alloc(value): the arena after the call, the chunk and the offset
\* of the item the returned reference points at, and the value it reads.
Arena_alloc(a, value) ==
    LET chunks1 == IF Arena_needs_new_chunk(a)
                   THEN Append(a.chunks, Vec_with_capacity(a.chunk_size))
                   ELSE a.chunks
        n == Len(chunks1)
        chunk == Vec_push(chunks1[n], value)
    IN  [arena |-> [a EXCEPT !.chunks = [chunks1 EXCEPT ![n] = chunk]],
         chunk |-> n - 1,
         offset |-> Len(chunk.items) - 1,
         ret |-> chunk.items[Len(chunk.items)]]

\* Mutant: the first chunk is emptied and kept for reuse.
Arena_clear_keep_first(a) ==
    IF a.chunks = <<>> THEN a
    ELSE [a EXCEPT !.chunks = <<[a.chunks[1] EXCEPT !.items = <<>>]>>]
\* Arena::clear
Arena_clear(a) == [a EXCEPT !.chunks = <<>>]

\* The sum of the lengths of the first n chunks.
RECURSIVE Arena_len_upto(_, _)
Arena_len_upto(a, n) ==
    IF n = 0 THEN 0 ELSE Arena_len_upto(a, n - 1) + Len(a.chunks[n].items)
\* Mutant: the last chunk is not counted.
Arena_len_all_but_last(a) ==
    IF a.chunks = <<>> THEN 0 ELSE Arena_len_upto(a, Len(a.chunks) - 1)
\* Arena::len: the sum of the chunks' lengths.
Arena_len(a) == Arena_len_upto(a, Len(a.chunks))

\* Arena::is_empty
Arena_is_empty(a) ==
    \/ a.chunks = <<>>
    \/ \A k \in 1..Len(a.chunks) : a.chunks[k].items = <<>>

(***************************************************************************)
(* State.                                                                  *)
(***************************************************************************)
VARIABLES
    entries,     \* SlotMap.entries : Vec<Entry<T>>
    free_head,   \* SlotMap.free_head : Option<u32>
    len,         \* SlotMap.len : usize
    panicked,    \* a call has panicked
    last,        \* history: the last call and what it returned
    prev,        \* history: the SlotMap as it was before the last call
    removes,     \* history: successful removes of each slot so far
    ninserts,    \* history: number of insert calls so far
    nremoves,    \* history: number of remove calls that returned Some so far
    issued,      \* history: handles returned by insert so far
    removed,     \* history: [handle, at]: remove(handle) returned Some as the
                 \*          at-th successful remove of the handle's slot
    scn,         \* history: progress of the documentation example
    vacated,     \* history: indices freed by remove and not reused since,
                 \*          the most recently freed first
    max_len,     \* history: the largest value len() has had so far
    slots,       \* Pool.slots : Vec<Slot<T>>
    first_free,  \* Pool.first_free : Option<u32>
    pool_len,    \* Pool.len : usize
    pool_panicked, \* a call on the pool has panicked
    pool_last,   \* history: the last call on the pool and what it returned
    pool_removed, \* history: handles for which Pool::remove returned Some
    sparse,      \* SparseSet.sparse : Vec<Option<usize>>
    dense,       \* SparseSet.dense : Vec<(u32, T)>
    set_panicked, \* a call on the sparse set has panicked
    set_last,    \* history: the last call on the sparse set and its result
    set_prev,    \* history: the sparse set as it was before the last call
    set_map,     \* history: for each index, the value last inserted or written
                 \*          and not removed since
    chunks,      \* Arena.chunks : Vec<Vec<T>>
    chunk_size,  \* Arena.chunk_size : usize
    arena_last,  \* history: the last call on the arena and its result
    arena_placed, \* history: where each alloc since the last clear put its value
    arena_nallocs, \* history: number of alloc calls since the last clear
    hash_set,    \* a HashSet<Handle<T>>
    handle_last, \* history: the last call on handles and its result
    race         \* two remove calls running without mutual exclusion: the
                 \* position and the handle of each, the len each has loaded,
                 \* the map before them, and whether their steps overlapped

\* The state of the SlotMap and its history.
map_vars == <<entries, free_head, len, panicked, last, prev, removes, ninserts,
              nremoves, issued, removed, scn, vacated, max_len>>
\* The state of the Pool and its history.
pool_vars == <<slots, first_free, pool_len, pool_panicked, pool_last, pool_removed>>

\* The state of the SparseSet and its history.
set_vars == <<sparse, dense, set_panicked, set_last, set_prev, set_map>>
\* The state of the Arena and its history.
arena_vars == <<chunks, chunk_size, arena_last, arena_placed, arena_nallocs>>

\* The hash set of handles and the history of the calls on handles.
handle_vars == <<hash_set, handle_last>>

vars == <<map_vars, pool_vars, set_vars, arena_vars, handle_vars, race>>

\* What a call on one container leaves alone: the other containers.
other_than_map == <<pool_vars, set_vars, arena_vars, handle_vars, race>>
other_than_pool == <<map_vars, set_vars, arena_vars, handle_vars, race>>
other_than_both == <<set_vars, arena_vars, handle_vars, race>>
other_than_set == <<map_vars, pool_vars, arena_vars, handle_vars, race>>
other_than_arena == <<map_vars, pool_vars, set_vars, handle_vars, race>>
other_than_handles == <<map_vars, pool_vars, set_vars, arena_vars, race>>
\* What a step of a racing remove leaves alone: the history of the SlotMap
\* and the other containers.
other_than_race == <<panicked, last, prev, removes, ninserts, nremoves, issued,
                     removed, scn, vacated, max_len, pool_vars, set_vars,
                     arena_vars, handle_vars>>

\* The SparseSet value held by the state.
set == [sparse |-> sparse, dense |-> dense]

\* The Arena value held by the state.
arena == [chunks |-> chunks, chunk_size |-> chunk_size]

\* The Pool value held by the state.
pool == [slots |-> slots, first_free |-> first_free, len |-> pool_len]

\* The SlotMap value held by the state.
map == [entries |-> entries, free_head |-> free_head, len |-> len]

ScnOff == [step |-> 5, hs |-> <<>>]

\* Progress of the example of the SlotMap documentation: insert "first",
\* insert "second", remove h1, insert "third".  scn.step = k says that the
\* calls made so far are exactly the first k calls of the example, scn.hs
\* holds the handles returned so far; any other call ends the example.
ScnInsert(value, handle) ==
    IF (scn.step = 0 /\ value = "first") \/ (scn.step = 1 /\ value = "second")
          \/ (scn.step = 3 /\ value = "third")
    THEN [step |-> scn.step + 1, hs |-> Append(scn.hs, handle)]
    ELSE ScnOff
ScnRemove(handle) ==
    IF scn.step = 2 /\ handle = scn.hs[1]
    THEN [step |-> 3, hs |-> scn.hs]
    ELSE ScnOff

Init ==
    /\ entries = SlotMap_new.entries
    /\ free_head = SlotMap_new.free_head
    /\ len = SlotMap_new.len
    /\ panicked = FALSE
    /\ last = [op |-> "new"]
    /\ prev = SlotMap_new
    /\ vacated = <<>>
    /\ max_len = SlotMap_new.len
    /\ removes = <<>>
    /\ ninserts = 0
    /\ nremoves = 0
    /\ issued = {}
    /\ removed = {}
    /\ scn = [step |-> 0, hs |-> <<>>]
    /\ slots = Pool_new.slots
    /\ first_free = Pool_new.first_free
    /\ pool_len = Pool_new.len
    /\ pool_panicked = FALSE
    /\ pool_last = [op |-> "new"]
    /\ pool_removed = {}
    /\ sparse = SparseSet_new.sparse
    /\ dense = SparseSet_new.dense
    /\ set_panicked = FALSE
    /\ set_last = [op |-> "new"]
    /\ set_prev = SparseSet_new
    /\ set_map = [index \in SparseIndices |-> None]
    /\ chunks = Arena_new.chunks
    /\ chunk_size = Arena_new.chunk_size
    /\ arena_last = [op |-> "new"]
    /\ arena_placed = {}
    /\ arena_nallocs = 0
    /\ hash_set = HashSet_new
    /\ handle_last = [op |-> "new"]
    /\ race = [pc |-> <<"idle", "idle">>, handles |-> <<>>, loaded |-> <<0, 0>>,
               before |-> SlotMap_new, overlapped |-> FALSE]

\* map.insert(value), while the store holds fewer than `slots_bound` slots or
\* has a vacant one to reuse
InsertWithin(value, slots_bound) ==
    /\ ~panicked
    /\ prev' = map
    /\ is_some(free_head) \/ Len(entries) < slots_bound
    /\ LET r == SlotMap_insert(map, value)
       IN  /\ entries' = r.map.entries
           /\ free_head' = r.map.free_head
           /\ len' = r.map.len
           /\ panicked' = r.panic
           /\ last' = [op |-> "insert", value |-> value, handle |-> r.ret]
           /\ removes' = IF Len(r.map.entries) > Len(entries)
                         THEN Append(removes, 0) ELSE removes
           /\ ninserts' = ninserts + 1
           /\ issued' = issued \cup {r.ret}
           /\ scn' = ScnInsert(value, r.ret)
           /\ vacated' = IF Len(r.map.entries) > Len(entries) THEN vacated
                         ELSE LET others(index) == index # r.ret.index
                              IN  SelectSeq(vacated, others)
           /\ max_len' = IF r.map.len > max_len THEN r.map.len ELSE max_len
    /\ UNCHANGED <<nremoves, removed>>

\* map.insert(value) on a store of at most MaxEntries slots
Insert(value) == InsertWithin(value, MaxEntries)

\* map.remove(handle)
Remove(handle) ==
    /\ ~panicked
    /\ prev' = map
    /\ LET r == SlotMap_remove(map, handle)
       IN  /\ is_some(r.ret) => nremoves < MaxRemoves
           /\ entries' = r.map.entries
           /\ free_head' = r.map.free_head
           /\ len' = r.map.len
           /\ panicked' = r.panic
           /\ last' = [op |-> "remove", ret |-> r.ret,
                       handle |-> IF is_some(r.ret) THEN Some(handle) ELSE None]
           /\ IF is_some(r.ret)
              THEN /\ removes' = [removes EXCEPT ![handle.index + 1] = @ + 1]
                   /\ nremoves' = nremoves + 1
                   /\ removed' = removed \cup
                         {[handle |-> handle, at |-> removes[handle.index + 1] + 1]}
              ELSE UNCHANGED <<removes, nremoves, removed>>
           /\ scn' = ScnRemove(handle)
           /\ vacated' = IF is_some(r.ret) THEN <<handle.index>> \o vacated
                         ELSE vacated
           /\ max_len' = IF r.map.len > max_len THEN r.map.len ELSE max_len
    /\ UNCHANGED <<ninserts, issued>>

\* map.get(handle)
Get(handle) ==
    /\ ~panicked
    /\ prev' = map
    /\ last' = [op |-> "get", ret |-> SlotMap_get(map, handle)]
    /\ scn' = ScnOff
    /\ UNCHANGED <<entries, free_head, len, panicked, removes, ninserts, nremoves,
                   issued, removed, vacated, max_len>>

\* if let Some(value) = map.get_mut(handle) { *value = written }
GetMut(handle, written) ==
    /\ ~panicked
    /\ prev' = map
    /\ LET r == SlotMap_get_mut(map, handle)
           m == IF is_some(r) THEN write_through(map, handle, written) ELSE map
       IN  /\ entries' = m.entries
           /\ free_head' = m.free_head
           /\ len' = m.len
           /\ last' = [op |-> "get_mut", ret |-> r]
    /\ scn' = ScnOff
    /\ UNCHANGED <<panicked, removes, ninserts, nremoves, issued, removed,
                   vacated, max_len>>

\* map.contains(handle)
Contains(handle) ==
    /\ ~panicked
    /\ prev' = map
    /\ last' = [op |-> "contains", ret |-> SlotMap_contains(map, handle)]
    /\ scn' = ScnOff
    /\ UNCHANGED <<entries, free_head, len, panicked, removes, ninserts, nremoves,
                   issued, removed, vacated, max_len>>

\* map.len() and map.is_empty()
LenIsEmpty ==
    /\ ~panicked
    /\ prev' = map
    /\ last' = [op |-> "len", ret |-> SlotMap_len(map),
                empty |-> SlotMap_is_empty(map)]
    /\ scn' = ScnOff
    /\ UNCHANGED <<entries, free_head, len, panicked, removes, ninserts, nremoves,
                   issued, removed, vacated, max_len>>

\* pool.insert(value)
PoolInsert(value) ==
    /\ ~pool_panicked
    /\ is_some(first_free) \/ Len(slots) < MaxEntries
    /\ LET r == Pool_insert(pool, value)
       IN  /\ slots' = r.pool.slots
           /\ first_free' = r.pool.first_free
           /\ pool_len' = r.pool.len
           /\ pool_panicked' = r.panic
           /\ pool_last' = [op |-> "insert", value |-> value, handle |-> r.ret]
    /\ UNCHANGED pool_removed

\* pool.remove(handle)
PoolRemove(handle) ==
    /\ ~pool_panicked
    /\ LET r == Pool_remove(pool, handle)
       IN  /\ slots' = r.pool.slots
           /\ first_free' = r.pool.first_free
           /\ pool_len' = r.pool.len
           /\ pool_panicked' = r.panic
           /\ pool_last' = [op |-> "remove", ret |-> r.ret,
                            handle |-> IF is_some(r.ret) THEN Some(handle) ELSE None]
           /\ pool_removed' = IF is_some(r.ret)
                              THEN pool_removed \cup {handle} ELSE pool_removed

\* pool.get(handle)
PoolGet(handle) ==
    /\ ~pool_panicked
    /\ pool_last' = [op |-> "get", ret |-> Pool_get(pool, handle)]
    /\ UNCHANGED <<slots, first_free, pool_len, pool_panicked, pool_removed>>

\* if let Some(value) = pool.get_mut(handle) { *value = written }
PoolGetMut(handle, written) ==
    /\ ~pool_panicked
    /\ LET r == Pool_get_mut(pool, handle)
           p == IF is_some(r) THEN Pool_write_through(pool, handle, written) ELSE pool
       IN  /\ slots' = p.slots
           /\ first_free' = p.first_free
           /\ pool_len' = p.len
           /\ pool_last' = [op |-> "get_mut", ret |-> r]
    /\ UNCHANGED <<pool_panicked, pool_removed>>

\* pool.len() and pool.is_empty()
PoolLenIsEmpty ==
    /\ ~pool_panicked
    /\ pool_last' = [op |-> "len", ret |-> Pool_len(pool),
                     empty |-> Pool_is_empty(pool)]
    /\ UNCHANGED <<slots, first_free, pool_len, pool_panicked, pool_removed>>

(***************************************************************************)
(* Calls on the SparseSet.                                                 *)
(***************************************************************************)
\* set.insert(index, value)
SparseInsert(index, value) ==
    /\ ~set_panicked
    /\ set_prev' = set
    /\ SparseSet_contains(set, index) \/ Len(dense) < MaxSetLen
    /\ LET r == SparseSet_insert(set, index, value)
       IN  /\ sparse' = r.set.sparse
           /\ dense' = r.set.dense
           /\ set_panicked' = r.panic
    /\ set_last' = [op |-> "insert", index |-> index, value |-> value]
    /\ set_map' = [set_map EXCEPT ![index] = Some(value)]

\* set.remove(index)
SparseRemove(index) ==
    /\ ~set_panicked
    /\ set_prev' = set
    /\ LET r == SparseSet_remove(set, index)
       IN  /\ sparse' = r.set.sparse
           /\ dense' = r.set.dense
           /\ set_panicked' = r.panic
           /\ set_last' = [op |-> "remove", index |-> index, ret |-> r.ret]
    /\ set_map' = [set_map EXCEPT ![index] = None]

\* set.get(index)
SparseGet(index) ==
    /\ ~set_panicked
    /\ set_prev' = set
    /\ LET r == SparseSet_get(set, index)
       IN  /\ set_panicked' = r.panic
           /\ set_last' = [op |-> "get", ret |-> r.ret]
    /\ UNCHANGED <<sparse, dense, set_map>>

\* set.get_mut(index); the caller writes `written` through the reference
SparseGetMut(index, written) ==
    /\ ~set_panicked
    /\ set_prev' = set
    /\ LET r == SparseSet_get_mut(set, index)
           after == IF is_some(r.ret)
                    THEN SparseSet_write_through(set, index, written)
                    ELSE set
       IN  /\ sparse' = after.sparse
           /\ dense' = after.dense
           /\ set_panicked' = r.panic
           /\ set_last' = [op |-> "get_mut", ret |-> r.ret]
           /\ set_map' = IF is_some(r.ret)
                         THEN [set_map EXCEPT ![index] = Some(written)]
                         ELSE set_map

\* set.contains(index)
SparseContains(index) ==
    /\ ~set_panicked
    /\ set_prev' = set
    /\ set_last' = [op |-> "contains", ret |-> SparseSet_contains(set, index)]
    /\ UNCHANGED <<sparse, dense, set_panicked, set_map>>

\* set.len(), set.is_empty()
SparseLenIsEmpty ==
    /\ ~set_panicked
    /\ set_prev' = set
    /\ set_last' = [op |-> "len", ret |-> SparseSet_len(set),
                    empty |-> SparseSet_is_empty(set)]
    /\ UNCHANGED <<sparse, dense, set_panicked, set_map>>

\* set.iter().collect()
SparseIter ==
    /\ ~set_panicked
    /\ set_prev' = set
    /\ set_last' = [op |-> "iter", ret |-> SparseSet_iter(set)]
    /\ UNCHANGED <<sparse, dense, set_panicked, set_map>>

(***************************************************************************)
(* Calls on the Arena.                                                     *)
(***************************************************************************)
\* Arena::with_chunk_size(size), in place of the arena of Arena::new()
ArenaWithChunkSize(size) ==
    /\ arena_last.op = "new"
    /\ chunks' = Arena_with_chunk_size(size).chunks
    /\ chunk_size' = Arena_with_chunk_size(size).chunk_size
    /\ arena_last' = [op |-> "with_chunk_size"]
    /\ UNCHANGED <<arena_placed, arena_nallocs>>

\* arena.alloc(value)
ArenaAlloc(value) ==
    /\ arena_nallocs < MaxAllocs
    /\ LET r == Arena_alloc(arena, value)
       IN  /\ chunks' = r.arena.chunks
           /\ chunk_size' = r.arena.chunk_size
           /\ arena_last' = [op |-> "alloc", value |-> value, ret |-> r.ret,
                             chunk |-> r.chunk, offset |-> r.offset]
           /\ arena_placed' = arena_placed \cup
                 {[chunk |-> r.chunk, offset |-> r.offset, value |-> value,
                   grown |-> r.arena.chunks[r.chunk + 1].grown]}
    /\ arena_nallocs' = arena_nallocs + 1

\* arena.clear()
ArenaClear ==
    /\ chunks' = Arena_clear(arena).chunks
    /\ chunk_size' = Arena_clear(arena).chunk_size
    /\ arena_last' = [op |-> "clear", len |-> Arena_len(arena),
                      chunk_size |-> chunk_size]
    /\ arena_placed' = {}
    /\ arena_nallocs' = 0

\* arena.len(), arena.is_empty()
ArenaLenIsEmpty ==
    /\ arena_last' = [op |-> "len", ret |-> Arena_len(arena),
                      empty |-> Arena_is_empty(arena)]
    /\ UNCHANGED <<chunks, chunk_size, arena_placed, arena_nallocs>>

(***************************************************************************)
(* Calls on handles.                                                       *)
(***************************************************************************)
\* a == b
HandleEq(a, b) ==
    /\ handle_last' = [op |-> "eq", a |-> a, b |-> b, ret |-> Handle_eq(a, b)]
    /\ UNCHANGED hash_set

\* let copy = handle; (or handle.clone())
HandleClone(handle) ==
    /\ handle_last' = [op |-> "clone", handle |-> handle,
                       ret |-> Handle_clone(handle)]
    /\ UNCHANGED hash_set

\* set.insert(handle) on the HashSet
HashInsert(handle) ==
    /\ hash_set' = HashSet_insert(hash_set, handle).set
    /\ handle_last' = [op |-> "insert", handle |-> handle,
                       ret |-> HashSet_insert(hash_set, handle).ret]

\* set.contains(&handle) on the HashSet
HashContains(handle) ==
    /\ handle_last' = [op |-> "contains", handle |-> handle,
                       ret |-> HashSet_contains(hash_set, handle)]
    /\ UNCHANGED hash_set

(***************************************************************************)
(* Two remove calls on one SlotMap without mutual exclusion.               *)
(***************************************************************************)
\* Two threads call map.remove(h1) and map.remove(h2) on distinct valid
\* handles.
RaceStart(h1, h2) ==
    /\ ~panicked
    /\ race.pc = <<"idle", "idle">>
    /\ h1 # h2
    /\ remove_check(map, h1)
    /\ remove_check(map, h2)
    /\ race' = [race EXCEPT !.pc = <<"replace", "replace">>,
                            !.handles = <<h1, h2>>,
                            !.before = map]
    /\ UNCHANGED <<entries, free_head, len>>

\* The other thread is between its first and its last step.
MidRemove(t) == race.pc[3 - t] \in {"set_head", "load_len", "store_len"}

\* Thread t checks its handle and replaces the entry by a Vacant one.
RaceReplace(t) ==
    /\ race.pc[t] = "replace"
    /\ IF remove_check(map, race.handles[t])
       THEN /\ entries' = remove_replace(map, race.handles[t]).entries
            /\ race' = [race EXCEPT !.pc[t] = "set_head",
                                    !.overlapped = @ \/ MidRemove(t)]
       ELSE /\ entries' = entries
            /\ race' = [race EXCEPT !.pc[t] = "done",
                                    !.overlapped = @ \/ MidRemove(t)]
    /\ UNCHANGED <<free_head, len>>

\* Thread t writes free_head.
RaceSetHead(t) ==
    /\ race.pc[t] = "set_head"
    /\ free_head' = remove_set_head(map, race.handles[t]).free_head
    /\ race' = [race EXCEPT !.pc[t] = "load_len",
                            !.overlapped = @ \/ MidRemove(t)]
    /\ UNCHANGED <<entries, len>>

\* Thread t loads len.
RaceLoadLen(t) ==
    /\ race.pc[t] = "load_len"
    /\ race' = [race EXCEPT !.pc[t] = "store_len",
                            !.loaded[t] = remove_load_len(map),
                            !.overlapped = @ \/ MidRemove(t)]
    /\ UNCHANGED <<entries, free_head, len>>

\* Thread t stores len and returns.
RaceStoreLen(t) ==
    /\ race.pc[t] = "store_len"
    /\ len' = remove_store_len(map, race.loaded[t]).len
    /\ race' = [race EXCEPT !.pc[t] = "done",
                            !.overlapped = @ \/ MidRemove(t)]
    /\ UNCHANGED <<entries, free_head>>

(***************************************************************************)
(* Spec: a SlotMap under every sequence of calls.                          *)
(***************************************************************************)
MapInsert == \E value \in Values : Insert(value) /\ UNCHANGED other_than_map
MapRemove == \E handle \in Handles : Remove(handle) /\ UNCHANGED other_than_map
MapGet == \E handle \in Handles : Get(handle) /\ UNCHANGED other_than_map
MapGetMut ==
    \E handle \in Handles, written \in Values :
        GetMut(handle, written) /\ UNCHANGED other_than_map
MapContains == \E handle \in Handles : Contains(handle) /\ UNCHANGED other_than_map
MapLenIsEmpty == LenIsEmpty /\ UNCHANGED other_than_map

Next ==
    \/ MapInsert
    \/ MapRemove
    \/ MapGet
    \/ MapGetMut
    \/ MapContains
    \/ MapLenIsEmpty

Spec == Init /\ [][Next]_vars

(***************************************************************************)
(* SpecPool: a Pool under every sequence of calls.                         *)
(***************************************************************************)
OnlyPoolInsert == \E value \in Values : PoolInsert(value) /\ UNCHANGED other_than_pool
OnlyPoolRemove == \E handle \in Handles : PoolRemove(handle) /\ UNCHANGED other_than_pool
OnlyPoolGet == \E handle \in Handles : PoolGet(handle) /\ UNCHANGED other_than_pool
OnlyPoolGetMut ==
    \E handle \in Handles, written \in Values :
        PoolGetMut(handle, written) /\ UNCHANGED other_than_pool
OnlyPoolLenIsEmpty == PoolLenIsEmpty /\ UNCHANGED other_than_pool

NextPool ==
    \/ OnlyPoolInsert
    \/ OnlyPoolRemove
    \/ OnlyPoolGet
    \/ OnlyPoolGetMut
    \/ OnlyPoolLenIsEmpty

SpecPool == Init /\ [][NextPool]_vars

(***************************************************************************)
(* SpecLockstep: the same calls with the same arguments applied to a       *)
(* SlotMap and to a Pool, both initially empty.                            *)
(***************************************************************************)
BothInsert ==
    \E value \in Values :
        Insert(value) /\ PoolInsert(value) /\ UNCHANGED other_than_both
BothRemove ==
    \E handle \in Handles :
        Remove(handle) /\ PoolRemove(handle) /\ UNCHANGED other_than_both
BothGet ==
    \E handle \in Handles :
        Get(handle) /\ PoolGet(handle) /\ UNCHANGED other_than_both
BothLen == LenIsEmpty /\ PoolLenIsEmpty /\ UNCHANGED other_than_both

NextLockstep ==
    \/ BothInsert
    \/ BothRemove
    \/ BothGet
    \/ BothLen

SpecLockstep == Init /\ [][NextLockstep]_vars

(***************************************************************************)
(* SpecWide: a SlotMap that is allowed to grow past the range of the u32   *)
(* index (IndexMod slots and one more), under inserts and removes.         *)
(***************************************************************************)
\* Handles over the whole index range.
WideHandles ==
    { Handle_new(i, g) : i \in 0..(IndexMod - 1), g \in 0..(GenMod - 1) }

WideInsert == InsertWithin("first", IndexMod + 1) /\ UNCHANGED other_than_map
WideRemove == \E handle \in WideHandles : Remove(handle) /\ UNCHANGED other_than_map

NextWide ==
    \/ WideInsert
    \/ WideRemove

SpecWide == Init /\ [][NextWide]_vars

(***************************************************************************)
(* SpecSparse: a SparseSet under every sequence of calls.                  *)
(***************************************************************************)
SetInsert ==
    \E index \in SparseIndices, value \in Payloads :
        SparseInsert(index, value) /\ UNCHANGED other_than_set
SetRemove ==
    \E index \in SparseIndices : SparseRemove(index) /\ UNCHANGED other_than_set
SetGet ==
    \E index \in SparseIndices : SparseGet(index) /\ UNCHANGED other_than_set
SetGetMut ==
    \E index \in SparseIndices, written \in Payloads :
        SparseGetMut(index, written) /\ UNCHANGED other_than_set
SetContains ==
    \E index \in SparseIndices : SparseContains(index) /\ UNCHANGED other_than_set
SetLenIsEmpty == SparseLenIsEmpty /\ UNCHANGED other_than_set
SetIter == SparseIter /\ UNCHANGED other_than_set

NextSparse ==
    \/ SetInsert
    \/ SetRemove
    \/ SetGet
    \/ SetGetMut
    \/ SetContains
    \/ SetLenIsEmpty
    \/ SetIter

SpecSparse == Init /\ [][NextSparse]_vars

(***************************************************************************)
(* SpecSparseMap: a SparseSet under every sequence of insert and remove    *)
(* calls and of calls that read it.                                        *)
(***************************************************************************)
NextSparseMap ==
    \/ SetInsert
    \/ SetRemove
    \/ SetGet
    \/ SetContains
    \/ SetLenIsEmpty

SpecSparseMap == Init /\ [][NextSparseMap]_vars

(***************************************************************************)
(* SpecContainers: one container, a SlotMap or a SparseSet, under every    *)
(* sequence of calls.  The first call decides which one the run is about.  *)
(***************************************************************************)
NextContainers ==
    \/ set_last.op = "new" /\ Next
    \/ last.op = "new" /\ NextSparse

SpecContainers == Init /\ [][NextContainers]_vars

(***************************************************************************)
(* SpecArena: an Arena built by new() or with_chunk_size(n), under every   *)
(* sequence of calls.                                                      *)
(***************************************************************************)
OnlyArenaWithChunkSize ==
    \E size \in ChunkSizes : ArenaWithChunkSize(size) /\ UNCHANGED other_than_arena
OnlyArenaAlloc ==
    \E value \in Payloads : ArenaAlloc(value) /\ UNCHANGED other_than_arena
OnlyArenaClear == ArenaClear /\ UNCHANGED other_than_arena
OnlyArenaLenIsEmpty == ArenaLenIsEmpty /\ UNCHANGED other_than_arena

NextArena ==
    \/ OnlyArenaWithChunkSize
    \/ OnlyArenaAlloc
    \/ OnlyArenaClear
    \/ OnlyArenaLenIsEmpty

SpecArena == Init /\ [][NextArena]_vars

(***************************************************************************)
(* SpecHandle: handles compared, copied, and kept in a hash set.           *)
(***************************************************************************)
OnlyHandleEq ==
    \E a, b \in HashHandles : HandleEq(a, b) /\ UNCHANGED other_than_handles
OnlyHandleClone ==
    \E handle \in HashHandles :
        HandleClone(handle) /\ UNCHANGED other_than_handles
OnlyHashInsert ==
    \E handle \in HashHandles :
        HashInsert(handle) /\ UNCHANGED other_than_handles
OnlyHashContains ==
    \E handle \in HashHandles :
        HashContains(handle) /\ UNCHANGED other_than_handles

NextHandle ==
    \/ OnlyHandleEq
    \/ OnlyHandleClone
    \/ OnlyHashInsert
    \/ OnlyHashContains

SpecHandle == Init /\ [][NextHandle]_vars

(***************************************************************************)
(* SpecRace: a SlotMap is filled by inserts and removes, then two threads  *)
(* remove two distinct valid handles with their steps interleaved freely.  *)
(***************************************************************************)
\* Before the two threads start, the map is filled by whole calls; the value
\* stored plays no part in the steps of remove, so one value is enough.
RaceSetUpInsert ==
    /\ race.pc = <<"idle", "idle">>
    /\ Insert("first")
    /\ UNCHANGED other_than_map
RaceSetUpRemove ==
    /\ race.pc = <<"idle", "idle">>
    /\ \E handle \in Handles :
           remove_check(map, handle) /\ Remove(handle) /\ UNCHANGED other_than_map
RaceBegin ==
    \E h1, h2 \in Handles : RaceStart(h1, h2) /\ UNCHANGED other_than_race
RaceStepReplace == \E t \in 1..2 : RaceReplace(t) /\ UNCHANGED other_than_race
RaceStepSetHead == \E t \in 1..2 : RaceSetHead(t) /\ UNCHANGED other_than_race
RaceStepLoadLen == \E t \in 1..2 : RaceLoadLen(t) /\ UNCHANGED other_than_race
RaceStepStoreLen == \E t \in 1..2 : RaceStoreLen(t) /\ UNCHANGED other_than_race

NextRace ==
    \/ RaceSetUpInsert
    \/ RaceSetUpRemove
    \/ RaceBegin
    \/ RaceStepReplace
    \/ RaceStepSetHead
    \/ RaceStepLoadLen
    \/ RaceStepStoreLen

SpecRace == Init /\ [][NextRace]_vars

(***************************************************************************)
(* Properties.                                                             *)
(***************************************************************************)
\* r records a successful remove of r.handle; since then the generation of
\* its slot has not come back to the generation of the handle.
NotWrapped(r) == removes[r.handle.index + 1] - r.at < GenMod - 1

C2_StaleInvalidation ==
    \A r \in removed :
        (r.handle \in issued /\ NotWrapped(r)) =>
            /\ SlotMap_get(map, r.handle) = None
            /\ ~SlotMap_contains(map, r.handle)

\* C2 witness: the slot of a removed handle has been reused and removed
\* again and reused again, and the handle is still rejected.
C2_Witness ==
    \E r \in removed :
        /\ r.handle \in issued
        /\ NotWrapped(r)
        /\ removes[r.handle.index + 1] > r.at
        /\ entries[r.handle.index + 1].tag = "Occupied"
        /\ SlotMap_get(map, r.handle) = None

\* C3, as stated (SlotMap slot reuse with distinct identity): when an insert
\* reuses the index of a handle h1 removed earlier, the handle h2 it returns
\* has the index of h1 and another generation, get(h1) is None and get(h2)
\* is the value just inserted.
C3_ReuseDistinct_AsStated ==
    last.op = "insert" =>
        \A r \in removed :
            r.handle.index = last.handle.index =>
                /\ last.handle.generation # r.handle.generation
                /\ SlotMap_get(map, r.handle) = None
                /\ SlotMap_get(map, last.handle) = Some(last.value)

\* C3, amended: the same, for a handle h1 whose slot has been removed fewer
\* than 2^w times since h1 was issued (its generation has not wrapped back).
C3_ReuseDistinct ==
    last.op = "insert" =>
        \A r \in removed :
            (r.handle.index = last.handle.index /\ NotWrapped(r)) =>
                /\ last.handle.index = r.handle.index
                /\ last.handle.generation # r.handle.generation
                /\ SlotMap_get(map, r.handle) = None
                /\ SlotMap_get(map, last.handle) = Some(last.value)

\* C3 witness: an insert has just reused the slot of a removed handle.
C3_Witness ==
    /\ last.op = "insert"
    /\ \E r \in removed :
          /\ r.handle.index = last.handle.index
          /\ NotWrapped(r)
          /\ r.at = removes[r.handle.index + 1]
          /\ SlotMap_get(map, r.handle) = None

\* C4 (SlotMap remove with an invalid handle is a no-op): when the index of
\* the handle is out of range, or its slot is vacant, or the generation of
\* the slot differs from the handle's, remove returns None and leaves
\* entries, free_head and len as they were; so a handle that no longer
\* matches its reused slot does not remove the new occupant.
C4_InvalidRemoveNoOp ==
    /\ \A h \in Handles :
          (\/ h.index >= Len(entries)
           \/ entries[h.index + 1].tag = "Vacant"
           \/ entries[h.index + 1].generation # h.generation) =>
              LET r == SlotMap_remove(map, h)
              IN  /\ r.ret = None
                  /\ r.map.entries = entries
                  /\ r.map.free_head = free_head
                  /\ r.map.len = len
    /\ (last.op = "remove" /\ last.ret = None) => map = prev

\* C4 witness: a remove has just returned None while the slot of a handle
\* removed earlier is occupied again, under another generation.
C4_Witness ==
    /\ last.op = "remove"
    /\ last.ret = None
    /\ \E r \in removed :
          /\ entries[r.handle.index + 1].tag = "Occupied"
          /\ entries[r.handle.index + 1].generation # r.handle.generation

\* Indices of the occupied entries.
OccupiedIndices == { i \in 0..(Len(entries) - 1) : entries[i + 1].tag = "Occupied" }

\* C5 (SlotMap count invariant): after any sequence of calls on an initially
\* empty SlotMap, len() is the number of inserts minus the number of removes
\* that returned Some, is the number of Occupied entries, and is_empty()
\* holds iff len() is 0.
C5_CountInvariant ==
    /\ SlotMap_len(map) = ninserts - nremoves
    /\ SlotMap_len(map) = Cardinality(OccupiedIndices)
    /\ SlotMap_is_empty(map) <=> (SlotMap_len(map) = 0)

\* C5 witness: inserts and successful removes have both happened and a
\* value is stored.
C5_Witness ==
    /\ ninserts >= 3
    /\ nremoves >= 2
    /\ SlotMap_len(map) = 1
    /\ ~SlotMap_is_empty(map)

\* The walk along next_free that starts at head: the indices visited, and
\* whether the walk ended at None having met only in-range, Vacant entries,
\* none of them twice.
RECURSIVE FreeWalk(_, _)
FreeWalk(head, visited) ==
    IF ~is_some(head)
    THEN [ok |-> TRUE, path |-> visited]
    ELSE IF \/ head.val >= Len(entries)
            \/ head.val \in { visited[k] : k \in 1..Len(visited) }
         THEN [ok |-> FALSE, path |-> visited]
         ELSE IF entries[head.val + 1].tag # "Vacant"
              THEN [ok |-> FALSE, path |-> visited]
              ELSE FreeWalk(entries[head.val + 1].next_free,
                            Append(visited, head.val))

\* C6 (SlotMap free-list integrity): every index reachable from free_head
\* along next_free is in range and designates a Vacant entry, and the chain
\* is acyclic and ends at None.
C6_FreeListIntegrity == FreeWalk(free_head, <<>>).ok

\* C6 witness: the free list holds two slots.
C6_Witness ==
    /\ FreeWalk(free_head, <<>>).ok
    /\ Len(FreeWalk(free_head, <<>>).path) = 2

\* C7 (SlotMap and Pool are semantically equivalent): under the same calls
\* with the same arguments, from empty, both return the same handles (index
\* and generation), the same Option results and the same len at every step.
C7_LockstepEquivalent ==
    /\ last = pool_last
    /\ SlotMap_len(map) = Pool_len(pool)

\* C8 (Pool detects stale handles): once Pool::remove(h) has returned Some,
\* Pool::get(h) and Pool::get_mut(h) return None and another Pool::remove(h)
\* returns None in every later state, also after inserts that reuse the slot.
C8_PoolStaleDetected ==
    \A h \in pool_removed :
        /\ Pool_get(pool, h) = None
        /\ Pool_get_mut(pool, h) = None
        /\ Pool_remove(pool, h).ret = None

\* C9 (SlotMap handle validity is decided identically by all operations):
\* for every handle, issued or synthesized, contains(h) is true iff the index
\* is in range, the entry there is Occupied and its generation is the
\* handle's; get(h) and get_mut(h) are Some exactly when contains(h) holds,
\* remove(h) returns Some exactly when contains(h) held; get and contains
\* change nothing.
C9_ValidityAgreed ==
    /\ \A h \in Handles :
          /\ SlotMap_contains(map, h) <=>
                 (/\ h.index < Len(entries)
                  /\ entries[h.index + 1].tag = "Occupied"
                  /\ entries[h.index + 1].generation = h.generation)
          /\ is_some(SlotMap_get(map, h)) <=> SlotMap_contains(map, h)
          /\ is_some(SlotMap_get_mut(map, h)) <=> SlotMap_contains(map, h)
          /\ is_some(SlotMap_remove(map, h).ret) <=> SlotMap_contains(map, h)
    /\ last.op \in {"get", "contains"} => map = prev

\* C9 witness: a lookup has just been answered while a handle issued earlier
\* points at an occupied slot of another generation, and is rejected.
C9_Witness ==
    /\ last.op \in {"get", "contains"}
    /\ \E h \in issued :
          /\ h.index < Len(entries)
          /\ entries[h.index + 1].tag = "Occupied"
          /\ entries[h.index + 1].generation # h.generation
          /\ ~SlotMap_contains(map, h)
          /\ SlotMap_get(map, h) = None

\* The successful remove that vacated the slot an insert then reused: the
\* latest one recorded for that index.
VacatedBy(index) ==
    { r \in removed : r.handle.index = index /\ r.at = removes[index + 1] }

\* The example of the SlotMap documentation (first, second, remove h1,
\* third) as far as the calls made so far follow it.
C10_Example ==
    /\ scn.step \in 1..4 => scn.hs[1] = Handle_new(0, 0)
    /\ scn.step \in 2..4 => scn.hs[2] = Handle_new(1, 0)
    /\ scn.step = 4 =>
          /\ scn.hs[3] = Handle_new(0, 1)
          /\ SlotMap_get(map, scn.hs[1]) = None
          /\ SlotMap_get(map, scn.hs[2]) = Some("second")

Sentinel == IndexMod - 1

\* C11 (sentinel and truncation): for any sequence of inserts and removes,
\* insert never returns a handle whose index is the sentinel u32::MAX, and
\* never returns the index of a slot that was occupied when it was called.
C11_SentinelNeverIssued ==
    last.op = "insert" =>
        /\ last.handle.index # Sentinel
        /\ \A i \in 0..(Len(prev.entries) - 1) :
               prev.entries[i + 1].tag = "Occupied" => last.handle.index # i

\* C11, second half alone: insert never returns the index of a slot that was
\* occupied when it was called.
C11_NoAliasing ==
    last.op = "insert" =>
        \A i \in 0..(Len(prev.entries) - 1) :
            prev.entries[i + 1].tag = "Occupied" => last.handle.index # i

\* C12 (no panic): in every state reachable from an empty SlotMap or an empty
\* SparseSet through calls with arbitrary arguments, no call has panicked and
\* no call would: the unreachable! branches of SlotMap::insert and
\* SlotMap::remove are not taken, len -= 1 does not underflow, and every
\* index into sparse and dense is in bounds.
C12_NoPanic ==
    /\ ~panicked
    /\ ~set_panicked
    /\ \A value \in Values :
           (is_some(free_head) \/ Len(entries) < MaxEntries) =>
               ~SlotMap_insert(map, value).panic
    /\ \A handle \in Handles : ~SlotMap_remove(map, handle).panic
    /\ \A index \in SparseIndices :
           /\ \A value \in Payloads : ~SparseSet_insert(set, index, value).panic
           /\ ~SparseSet_remove(set, index).panic
           /\ ~SparseSet_get(set, index).panic
           /\ ~SparseSet_get_mut(set, index).panic

\* A remove has moved the last dense element into the place of the removed one.
C12_Witness ==
    /\ set_last.op = "remove"
    /\ is_some(set_last.ret)
    /\ set_prev.sparse[set_last.index + 1].val < Len(dense)
    /\ \E index \in SparseIndices : index >= Len(sparse)

\* C13 (dense/sparse bijection): after any sequence of calls, every dense
\* position d holds an index in range of sparse whose sparse record is d, every
\* sparse record Some(d) names a dense position d that holds that index, and no
\* index occurs twice in dense.
C13_Bijection ==
    /\ \A d \in 0..(Len(dense) - 1) :
           /\ dense[d + 1][1] < Len(sparse)
           /\ sparse[dense[d + 1][1] + 1] = Some(d)
    /\ \A i \in 0..(Len(sparse) - 1) :
           is_some(sparse[i + 1]) =>
               /\ sparse[i + 1].val < Len(dense)
               /\ dense[sparse[i + 1].val + 1][1] = i
    /\ \A d1, d2 \in 1..Len(dense) :
           d1 # d2 => dense[d1][1] # dense[d2][1]

\* A remove from the middle of a dense array of three or more.
C13_Witness ==
    /\ set_last.op = "remove"
    /\ is_some(set_last.ret)
    /\ Len(dense) >= 2
    /\ set_prev.sparse[set_last.index + 1].val < Len(dense)

\* The external indices of the dense array, in dense order.
DenseIndices(s) == [k \in 1..Len(s.dense) |-> s.dense[k][1]]

\* Index i has an entry in the set.
Present(s, i) == \E k \in 1..Len(s.dense) : s.dense[k][1] = i

\* C14 (remove frame): when remove(i) returns Some, len() decreases by exactly
\* one, contains(i) becomes false, and every other index that was present
\* stays present with get returning the same value; inserting 5, 2, 9 and then
\* remove(2) leaves len 2 with 5 and 9 retrievable.
C14_RemoveFrame ==
    (set_last.op = "remove" /\ is_some(set_last.ret)) =>
        LET i == set_last.index
        IN  /\ SparseSet_len(set) = SparseSet_len(set_prev) - 1
            /\ ~SparseSet_contains(set, i)
            /\ \A j \in 0..(Len(set_prev.sparse) - 1) :
                   (j # i /\ SparseSet_contains(set_prev, j)) =>
                       /\ SparseSet_contains(set, j)
                       /\ SparseSet_get(set, j) = SparseSet_get(set_prev, j)
            /\ (DenseIndices(set_prev) = <<5, 2, 9>> /\ i = 2) =>
                   /\ SparseSet_len(set) = 2
                   /\ is_some(SparseSet_get(set, 5).ret)
                   /\ is_some(SparseSet_get(set, 9).ret)

\* The example: 5, 2, 9 were inserted in that order and remove(2) returned Some.
C14_Witness ==
    /\ set_last.op = "remove"
    /\ is_some(set_last.ret)
    /\ set_last.index = 2
    /\ DenseIndices(set_prev) = <<5, 2, 9>>

\* C15 (insert is an update): insert(i, v) on a present index overwrites the
\* value in place, leaving len(), the dense position of i, the iteration order
\* and every other entry unchanged, and get(i) then returns v; on an absent
\* index it increases len() by exactly one and appends (i, v) to dense.
C15_InsertUpdates ==
    set_last.op = "insert" =>
        LET i == set_last.index
            v == set_last.value
        IN  IF Present(set_prev, i)
            THEN /\ SparseSet_len(set) = SparseSet_len(set_prev)
                 /\ sparse = set_prev.sparse
                 /\ DenseIndices(set) = DenseIndices(set_prev)
                 /\ \A k \in 1..Len(dense) :
                        dense[k][1] # i => dense[k] = set_prev.dense[k]
                 /\ SparseSet_get(set, i).ret = Some(v)
            ELSE /\ SparseSet_len(set) = SparseSet_len(set_prev) + 1
                 /\ dense = Append(set_prev.dense, <<i, v>>)
                 /\ SparseSet_get(set, i).ret = Some(v)

\* An insert has replaced the value of a present index by a different one,
\* with other entries around it.
C15_Witness ==
    /\ set_last.op = "insert"
    /\ Present(set_prev, set_last.index)
    /\ SparseSet_get(set_prev, set_last.index).ret # Some(set_last.value)
    /\ Len(dense) >= 2

\* C16 (absence): for an index that is not present, within or beyond the
\* sparse array, remove returns None, get and get_mut return None, contains
\* returns false, and sparse (its length too) and dense are unchanged.
C16_AbsenceNoMutation ==
    /\ \A i \in SparseIndices :
           ~Present(set, i) =>
               /\ SparseSet_remove(set, i) =
                      [set |-> set, ret |-> None, panic |-> FALSE]
               /\ SparseSet_get(set, i).ret = None
               /\ SparseSet_get_mut(set, i).ret = None
               /\ ~SparseSet_contains(set, i)
    /\ (set_last.op = "remove" /\ set_last.ret = None) =>
           /\ sparse = set_prev.sparse
           /\ Len(sparse) = Len(set_prev.sparse)
           /\ dense = set_prev.dense
    /\ (set_last.op = "get_mut" /\ set_last.ret = None) => set = set_prev
    /\ set_last.op \in {"get", "contains"} => set = set_prev

\* A remove of an index beyond the sparse array of a set that is not empty
\* has returned None.
C16_Witness ==
    /\ set_last.op = "remove"
    /\ set_last.ret = None
    /\ set_last.index >= Len(sparse)
    /\ Len(dense) >= 1

\* C17 (iteration): iter yields exactly len() pairs, one for each present
\* index and none for an absent one, each with the value get would return, in
\* dense order; iterating does not change the set, and iterating again yields
\* the same sequence.
C17_IterExact ==
    LET it == SparseSet_iter(set)
    IN  /\ Len(it) = SparseSet_len(set)
        /\ \A i \in SparseIndices \cup 0..(Len(sparse) - 1) :
               Cardinality({k \in 1..Len(it) : it[k][1] = i}) =
                   IF SparseSet_contains(set, i) THEN 1 ELSE 0
        /\ \A k \in 1..Len(it) :
               /\ SparseSet_contains(set, it[k][1])
               /\ SparseSet_get(set, it[k][1]).ret = Some(it[k][2])
               /\ it[k][1] = dense[k][1]
        /\ set_last.op = "iter" =>
               /\ set = set_prev
               /\ set_last.ret = it

\* An iteration has yielded two or more pairs, not in increasing index order.
C17_Witness ==
    /\ set_last.op = "iter"
    /\ Len(set_last.ret) >= 2
    /\ set_last.ret[1][1] > set_last.ret[2][1]

\* C18 (chunk stability): the item written by alloc(v) reads back v, and after
\* any number of later alloc calls, up until clear, it is in the same chunk at
\* the same offset, in a buffer that has not moved, with the same value.
C18_ChunkStability ==
    /\ arena_last.op = "alloc" => arena_last.ret = arena_last.value
    /\ \A p \in arena_placed :
           /\ p.chunk < Len(chunks)
           /\ p.offset < Len(chunks[p.chunk + 1].items)
           /\ chunks[p.chunk + 1].items[p.offset + 1] = p.value
           /\ chunks[p.chunk + 1].grown = p.grown
    /\ \A p, q \in arena_placed :
           (p.chunk = q.chunk /\ p.offset = q.offset) => p = q

\* An alloc has opened a third chunk or a later one while earlier items of
\* both values are in place.
C18_Witness ==
    /\ arena_last.op = "alloc"
    /\ arena_last.chunk >= 2
    /\ arena_last.offset = 0
    /\ \E p, q \in arena_placed : p.value # q.value /\ p.chunk < q.chunk

\* C19 (fixed-capacity chunks): for every chunk size accepted by
\* with_chunk_size and every sequence of alloc and clear calls, no chunk holds
\* more than chunk_size items and no chunk has been grown after its creation.
C19_FixedCapacity ==
    \A k \in 1..Len(chunks) :
        /\ Len(chunks[k].items) <= chunk_size
        /\ chunks[k].grown = 0
        /\ chunks[k].capacity = chunk_size

\* C20 (len counts allocations): after any sequence of alloc and clear calls,
\* len() is the number of alloc calls since construction or the most recent
\* clear, and is_empty() holds iff len() is 0.
C20_LenCountsAllocs ==
    /\ Arena_len(arena) = arena_nallocs
    /\ Arena_is_empty(arena) <=> (Arena_len(arena) = 0)
    /\ arena_last.op = "len" =>
           /\ arena_last.ret = arena_nallocs
           /\ arena_last.empty <=> (arena_last.ret = 0)

\* len() has been called on an arena of several chunks, the last one partly
\* filled.
C20_Witness ==
    /\ arena_last.op = "len"
    /\ arena_last.ret >= 3
    /\ Len(chunks) >= 2
    /\ Len(chunks[Len(chunks)].items) < chunk_size

\* C21 (clear resets): after clear, from any reachable state, there is no
\* chunk, len() is 0 and is_empty() holds, chunk_size is what it was, and the
\* arena is the arena with_chunk_size(chunk_size) builds: an alloc on it opens
\* a new first chunk and puts the value at its offset 0, as on a fresh arena.
C21_ClearResets ==
    arena_last.op = "clear" =>
        /\ chunks = <<>>
        /\ Arena_len(arena) = 0
        /\ Arena_is_empty(arena)
        /\ chunk_size = arena_last.chunk_size
        /\ arena = Arena_with_chunk_size(arena_last.chunk_size)
        /\ arena_placed = {}
        /\ \A value \in Payloads :
               LET r == Arena_alloc(arena, value)
               IN  /\ r = Arena_alloc(Arena_with_chunk_size(chunk_size), value)
                   /\ r.chunk = 0
                   /\ r.offset = 0
                   /\ Len(r.arena.chunks) = 1
                   /\ r.arena.chunks[1].items = <<value>>

\* clear() has been called on an arena that held several items.
C21_Witness ==
    /\ arena_last.op = "clear"
    /\ arena_last.len >= 3
    /\ arena_last.chunk_size \in 1..2

\* C22 (handle equality and hashing): two handles are equal iff their indices
\* are equal and their generations are equal, a copy of a handle equals the
\* original, equal handles feed the same (index, generation) sequence to the
\* hasher, and a hash set that contains Handle(1,1) alone does not contain
\* Handle(1,2).
C22_EqHashByPair ==
    /\ \A a, b \in HashHandles :
           /\ Handle_eq(a, b) <=> (a.index = b.index /\ a.generation = b.generation)
           /\ Handle_eq(a, b) =>
                  Handle_hash(a, <<>>) = Handle_hash(b, <<>>)
    /\ \A a \in HashHandles :
           /\ Handle_eq(Handle_clone(a), a)
           /\ Handle_hash(a, <<>>) = <<a.index, a.generation>>
           /\ HashSet_contains(hash_set, a) <=>
                  \E k \in 1..Len(hash_set) :
                      /\ hash_set[k].index = a.index
                      /\ hash_set[k].generation = a.generation
    /\ handle_last.op = "eq" =>
           handle_last.ret = (handle_last.a = handle_last.b)
    /\ handle_last.op = "clone" => handle_last.ret = handle_last.handle
    /\ hash_set = <<Handle_new(1, 1)>> =>
           /\ HashSet_contains(hash_set, Handle_new(1, 1))
           /\ ~HashSet_contains(hash_set, Handle_new(1, 2))

\* contains(&Handle(1,2)) has returned false on a hash set that holds
\* Handle(1,1) alone.
C22_Witness ==
    /\ hash_set = <<Handle_new(1, 1)>>
    /\ handle_last.op = "contains"
    /\ handle_last.handle = Handle_new(1, 2)
    /\ handle_last.ret = FALSE

\* C23 (LIFO reuse before growth): whenever a slot is vacant, insert appends no
\* entry and returns the index of the most recently freed slot that has not
\* been reused, which is the free-list head, and free_head becomes that slot's
\* former next_free; remove makes the freed index the new head, with next_free
\* equal to the previous head.
C23_LifoReuse ==
    /\ FreeWalk(free_head, <<>>).path = vacated
    /\ (/\ last.op = "insert"
        /\ \E i \in 1..Len(prev.entries) : prev.entries[i].tag = "Vacant") =>
           /\ Len(entries) = Len(prev.entries)
           /\ is_some(prev.free_head)
           /\ last.handle.index = prev.free_head.val
           /\ free_head = prev.entries[last.handle.index + 1].next_free
    /\ (last.op = "remove" /\ is_some(last.ret)) =>
           LET index == last.handle.val.index
           IN  /\ free_head = Some(index)
               /\ entries[index + 1].tag = "Vacant"
               /\ entries[index + 1].next_free = prev.free_head
               /\ Head(vacated) = index

\* An insert has reused the later freed of two vacant slots, the lower index
\* being the one freed first and still vacant.
C23_Witness ==
    /\ last.op = "insert"
    /\ is_some(prev.free_head)
    /\ last.handle.index = prev.free_head.val
    /\ Len(vacated) >= 1
    /\ vacated[1] < last.handle.index

\* Successful removes of the slot of r.handle since r.handle was issued.
RemovesSince(r) == removes[r.handle.index + 1] - (r.at - 1)

\* C24 (generation wraparound): each slot's stored generation is the number of
\* successful removes on that slot modulo 2^w and changes only on a successful
\* remove of that slot; a handle that was removed validates again exactly when
\* its slot is occupied and has undergone a multiple of 2^w successful removes
\* since the handle was issued, and never before the 2^w-th.
C24_Wraparound ==
    /\ \A i \in 1..Len(entries) : entries[i].generation = removes[i] % GenMod
    /\ \A i \in 1..Len(prev.entries) :
           entries[i].generation # prev.entries[i].generation =>
               /\ last.op = "remove"
               /\ is_some(last.ret)
               /\ last.handle.val.index = i - 1
    /\ \A r \in removed :
           /\ SlotMap_contains(map, r.handle) <=>
                  /\ entries[r.handle.index + 1].tag = "Occupied"
                  /\ RemovesSince(r) % GenMod = 0
           /\ is_some(SlotMap_get(map, r.handle)) <=>
                  SlotMap_contains(map, r.handle)
           /\ SlotMap_contains(map, r.handle) => RemovesSince(r) >= GenMod

\* A removed handle is valid again: its slot has been removed 2^w times and is
\* occupied.
C24_Witness ==
    \E r \in removed :
        /\ SlotMap_contains(map, r.handle)
        /\ RemovesSince(r) = GenMod

\* C25 (insert and remove frame): for every handle h2 that was valid before an
\* insert or a remove and is not the handle inserted or removed, contains(h2)
\* is still true and get(h2) returns the value it returned before, whether the
\* call reused a slot, grew the store, or removed.
C25_OthersUntouched ==
    last.op \in {"insert", "remove"} =>
        \A h2 \in Handles :
            (/\ SlotMap_contains(prev, h2)
             /\ last.op = "insert" => h2 # last.handle
             /\ (last.op = "remove" /\ is_some(last.handle)) =>
                    h2 # last.handle.val) =>
                /\ SlotMap_contains(map, h2)
                /\ SlotMap_get(map, h2) = SlotMap_get(prev, h2)

\* An insert has reused a slot while another handle was live.
C25_Witness ==
    /\ last.op = "insert"
    /\ is_some(prev.free_head)
    /\ \E h2 \in Handles : h2 # last.handle /\ SlotMap_contains(prev, h2)

\* C26 (get_mut frame): a write through get_mut(h) on a valid handle is what
\* get(h) and remove(h) return afterwards, and it leaves len, free_head, every
\* entry's generation and every other entry's value unchanged; get_mut on an
\* invalid handle returns None and changes nothing.
C26_GetMutFrame ==
    /\ \A h \in Handles :
           IF SlotMap_contains(map, h)
           THEN /\ is_some(SlotMap_get_mut(map, h))
                /\ \A written \in Values :
                       LET m2 == write_through(map, h, written)
                       IN  /\ SlotMap_get(m2, h) = Some(written)
                           /\ SlotMap_remove(m2, h).ret = Some(written)
                           /\ m2.len = len
                           /\ m2.free_head = free_head
                           /\ Len(m2.entries) = Len(entries)
                           /\ \A i \in 1..Len(entries) :
                                  /\ m2.entries[i].generation = entries[i].generation
                                  /\ m2.entries[i].tag = entries[i].tag
                                  /\ i # h.index + 1 => m2.entries[i] = entries[i]
           ELSE SlotMap_get_mut(map, h) = None
    /\ (last.op = "get_mut" /\ last.ret = None) => map = prev
    /\ (last.op = "get_mut" /\ is_some(last.ret)) =>
           /\ len = prev.len
           /\ free_head = prev.free_head
           /\ Len(entries) = Len(prev.entries)
           /\ \A i \in 1..Len(entries) :
                  /\ entries[i].generation = prev.entries[i].generation
                  /\ entries[i].tag = prev.entries[i].tag
           /\ \E i \in 1..Len(entries) :
                  /\ prev.entries[i].tag = "Occupied"
                  /\ prev.entries[i].value = last.ret.val
                  /\ \A j \in 1..Len(entries) : j # i => entries[j] = prev.entries[j]

\* A write through get_mut has changed the value of one slot of a store that
\* has another slot.
C26_Witness ==
    /\ last.op = "get_mut"
    /\ is_some(last.ret)
    /\ map # prev
    /\ Len(entries) >= 2

\* C27 (swap-remove): when remove(i) succeeds with i at dense position d, the
\* element that was last in dense is at position d afterwards (unless i was
\* last) and its sparse record is d, every other element keeps its dense
\* position and its sparse record, and dense is one shorter; so the order of
\* the remaining elements can change.
C27_SwapRemove ==
    (set_last.op = "remove" /\ is_some(set_last.ret)) =>
        LET i == set_last.index
            d == set_prev.sparse[i + 1].val
            n == Len(set_prev.dense)
            moved == set_prev.dense[n][1]
        IN  /\ set_prev.dense[d + 1][1] = i
            /\ set_last.ret = Some(set_prev.dense[d + 1][2])
            /\ Len(dense) = n - 1
            /\ d < n - 1 =>
                   /\ dense[d + 1] = set_prev.dense[n]
                   /\ sparse[moved + 1] = Some(d)
            /\ \A k \in 1..(n - 1) : k # d + 1 => dense[k] = set_prev.dense[k]
            /\ Len(sparse) = Len(set_prev.sparse)
            /\ sparse[i + 1] = None
            /\ \A j \in 0..(Len(sparse) - 1) :
                   (j # i /\ ~(d < n - 1 /\ j = moved)) =>
                       sparse[j + 1] = set_prev.sparse[j + 1]

\* A remove from the front or the middle of three has moved the last element
\* forward: the remaining indices are no longer in the order they had.
C27_Witness ==
    /\ set_last.op = "remove"
    /\ is_some(set_last.ret)
    /\ Len(set_prev.dense) >= 3
    /\ LET survives(index) == index # set_last.index
       IN  DenseIndices(set) # SelectSeq(DenseIndices(set_prev), survives)

\* C28 (finite map): after any sequence of insert and remove calls,
\* contains(i) is true iff the last insert or remove on i was an insert, get(i)
\* is the value of the most recent insert(i, v) not followed by remove(i) and
\* None otherwise, remove(i) returns that same value, and len() counts those
\* indices: nothing a call returns depends on whether an index had been
\* removed before.
C28_FiniteMap ==
    /\ \A i \in SparseIndices :
           /\ SparseSet_contains(set, i) <=> is_some(set_map[i])
           /\ SparseSet_get(set, i).ret = set_map[i]
           /\ SparseSet_get_mut(set, i).ret = set_map[i]
           /\ SparseSet_remove(set, i).ret = set_map[i]
    /\ SparseSet_len(set) =
           Cardinality({i \in SparseIndices : is_some(set_map[i])})
    /\ \A k \in 1..Len(dense) : dense[k][1] \in SparseIndices

\* Index 9 has been inserted again after its removal, with another index
\* present.
C28_Witness ==
    /\ set_last.op = "insert"
    /\ set_last.index = 9
    /\ Len(set_prev.sparse) = 10
    /\ ~Present(set_prev, 9)
    /\ Len(dense) >= 2
    /\ set_map[9] = Some(set_last.value)

\* C30 (slots are created only by growth): the number of entries never
\* decreases, it increases, by exactly one, only on an insert made while the
\* free list is empty, and it equals the largest value len() has had so far.
C30_OnlyGrowth ==
    /\ Len(entries) >= Len(prev.entries)
    /\ Len(entries) # Len(prev.entries) =>
           /\ Len(entries) = Len(prev.entries) + 1
           /\ last.op = "insert"
           /\ prev.free_head = None
    /\ (last.op = "insert" /\ prev.free_head = None) =>
           Len(entries) = Len(prev.entries) + 1
    /\ Len(entries) = max_len
    /\ max_len >= len

\* After growth to two slots and a remove, an insert has reused a slot: the
\* store still has as many slots as len() once reached.
C30_Witness ==
    /\ last.op = "insert"
    /\ is_some(prev.free_head)
    /\ Len(entries) = 2
    /\ len < max_len

\* Every Vacant slot is on the chain from free_head and len is the number of
\* Occupied entries.
StructureIntact ==
    /\ FreeWalk(free_head, <<>>).ok
    /\ \A i \in 0..(Len(entries) - 1) :
           entries[i + 1].tag = "Vacant" =>
               \E k \in 1..Len(FreeWalk(free_head, <<>>).path) :
                   FreeWalk(free_head, <<>>).path[k] = i
    /\ len = Cardinality(OccupiedIndices)

\* No racing remove is between its first and its last step.
RaceQuiet == \A t \in 1..2 : race.pc[t] \in {"idle", "replace", "done"}

\* C29 (unsynchronized concurrent removal): when each of two remove calls on
\* distinct valid handles runs its steps without the other's in between, the
\* structure is intact after each call and the map is what the two calls made
\* one after the other leave; a corrupted structure (a Vacant slot off the
\* free list, or a wrong len) is reached only when the steps interleave.
C29_AtomicRemovesIntact ==
    (RaceQuiet /\ ~race.overlapped) =>
        /\ StructureIntact
        /\ race.pc = <<"done", "done">> =>
               \/ map = SlotMap_remove(SlotMap_remove(race.before,
                            race.handles[1]).map, race.handles[2]).map
               \/ map = SlotMap_remove(SlotMap_remove(race.before,
                            race.handles[2]).map, race.handles[1]).map

\* Both removes have returned after interleaved steps, and a Vacant slot is
\* not reachable from free_head.
C29_Witness ==
    /\ race.pc = <<"done", "done">>
    /\ race.overlapped
    /\ \E i \in 0..(Len(entries) - 1) :
           /\ entries[i + 1].tag = "Vacant"
           /\ \A k \in 1..Len(FreeWalk(free_head, <<>>).path) :
                  FreeWalk(free_head, <<>>).path[k] # i

\* Both removes have returned after interleaved steps, and len is not the
\* number of Occupied entries.
C29_WitnessLen ==
    /\ race.pc = <<"done", "done">>
    /\ race.overlapped
    /\ len # Cardinality(OccupiedIndices)


\* C31 (SlotMap never leaks a vacant slot): in every reachable state each
\* Vacant entry appears exactly once on the chain that starts at free_head,
\* so the number of entries is len() plus the length of the free list, and
\* free_head is None iff every entry is Occupied.
C31_NoLeakedVacant ==
    LET walk == FreeWalk(free_head, <<>>)
    IN  /\ walk.ok
        /\ \A i \in 0..(Len(entries) - 1) :
               entries[i + 1].tag = "Vacant" =>
                   Cardinality({ k \in 1..Len(walk.path) : walk.path[k] = i }) = 1
        /\ Len(entries) = SlotMap_len(map) + Len(walk.path)
        /\ (free_head = None) <=>
               (\A i \in 0..(Len(entries) - 1) : entries[i + 1].tag = "Occupied")

\* C31 witness: after removes and a reusing insert, one slot is Occupied and
\* the other is the only one on the free list.
C31_Witness ==
    /\ ninserts >= 3
    /\ nremoves >= 2
    /\ Len(entries) = 2
    /\ SlotMap_len(map) = 1
    /\ Len(FreeWalk(free_head, <<>>).path) = 1
    /\ entries[FreeWalk(free_head, <<>>).path[1] + 1].tag = "Vacant"


\* The issued handles that are valid now.
ValidIssued == { h \in issued : SlotMap_contains(map, h) }

\* No slot has been removed as many times as there are generations.
NoSlotRemovedFullCycle == \A i \in 1..Len(removes) : removes[i] < GenMod

\* C32 (SlotMap never issues the same handle twice): provided no slot has
\* been removed 2^w times, every handle returned by insert differs, as an
\* (index, generation) pair, from every handle returned by an earlier insert,
\* so the issued handles are as many as the inserts; at most one issued
\* handle is valid per slot and exactly len() issued handles are valid.
C32_NeverSameHandleTwice ==
    NoSlotRemovedFullCycle =>
        /\ Cardinality(issued) = ninserts
        /\ \A i \in 0..(Len(entries) - 1) :
               Cardinality({ h \in ValidIssued : h.index = i }) <= 1
        /\ Cardinality(ValidIssued) = SlotMap_len(map)


\* C33 (Arena chunks fill in order): in every reachable state with
\* chunk_size >= 1 no chunk is empty and every chunk except the last holds
\* exactly chunk_size items, so the number of chunks is
\* ceil(len() / chunk_size); and an alloc has created a new chunk (its item
\* is the first of its chunk) only when there was no chunk or the chunk
\* before it is full.
C33_ChunksFillInOrder ==
    chunk_size >= 1 =>
        /\ \A k \in 1..Len(chunks) : Len(chunks[k].items) >= 1
        /\ \A k \in 1..(Len(chunks) - 1) : Len(chunks[k].items) = chunk_size
        /\ Len(chunks) = (Arena_len(arena) + chunk_size - 1) \div chunk_size
        /\ arena_last.op = "alloc" =>
               /\ arena_last.chunk = Len(chunks) - 1
               /\ arena_last.offset = 0 =>
                      \/ arena_last.chunk = 0
                      \/ Len(chunks[arena_last.chunk].items) = chunk_size
               /\ arena_last.offset > 0 =>
                      arena_last.offset < chunk_size

\* C33 witness: with chunks of two items, the fifth alloc has just opened a
\* third chunk behind two full ones.
C33_Witness ==
    /\ chunk_size = 2
    /\ arena_last.op = "alloc"
    /\ arena_last.chunk = 2
    /\ arena_last.offset = 0
    /\ Len(chunks) = 3
    /\ Len(chunks[1].items) = 2
    /\ Len(chunks[2].items) = 2
    /\ Len(chunks[3].items) = 1

====
